---------------------------- MODULE Spec2Model ----------------------------
(***************************************************************************)
(* Student records on a Fabric channel: the chaincode (SmartContract), the *)
(* gateway's evaluate and four-phase submit as the REST server and the     *)
(* client application drive them, and the start-up and shutdown of both    *)
(* programs.                                                               *)
(***************************************************************************)
EXTENDS Integers, Sequences, FiniteSets, TLC

VARIABLES
    ledger,      \* world state: key -> [val, ver]
    txs,         \* the submits begun so far, in the order they began
    orderQueue,  \* transaction ids sent to ordering and not yet validated
    lastEval,    \* the most recent evaluate since the last commit: call and result
    prog,        \* which main runs: "server" (REST API) or "app" (client application)
    pc,          \* where main is
    step,        \* the client app's position in its sequence of calls
    conn,        \* the gRPC client connection: "nil", "open", "closed"
    identity,    \* the X.509 identity: "nil", or the certificate it was made from
    sign,        \* the signing function: "nil", or the private key it signs with
    gw,          \* the gateway: "nil", "open", "closed"
    contract,    \* the contract handle: "nil", "bound"
    defers,      \* main's deferred calls, the last registered first
    closes,      \* how often gw.Close and the connection's Close have run
    inflight,    \* per REST handler, the requests it is serving
    served,      \* number of requests answered
    how,         \* how main ended: "running", "panic", "fatal", "return"
    fs,          \* the credential directories: certPath and keyPath
    requests     \* the REST requests handled: handler, submits made, answer sent

ledgerVars == <<ledger, txs, orderQueue, lastEval>>

mainVars ==
    <<prog, pc, step, conn, identity, sign, gw, contract, defers, closes, inflight, served, how,
      fs, requests>>

vars ==
    <<ledger, txs, orderQueue, lastEval,
      prog, pc, step, conn, identity, sign, gw, contract, defers, closes, inflight, served, how,
      fs, requests>>

(***************************************************************************)
(* Bounds                                                                  *)
(***************************************************************************)
\* number of submits begun in one run
MaxTx == 2

\* number of requests the REST server serves at once
MaxInflight == 2

\* number of requests the REST server accepts in one run
MaxServed == 4

\* number of files in a credential directory
MaxFiles == 2

\* number of REST requests followed from arrival to answer
MaxRequests == 2

(***************************************************************************)
(* World state and the chaincode's records                                 *)
(***************************************************************************)
\* a nil byte slice or pointer; a value that is there is the one-element <<value>>
Nil == <<>>

\* the keys in use: the two InitLedger writes and the one the client app creates
Ids == {"S1", "S2", "STU001"}

\* GetStateByRange("", "") iterates keys in lexical order
KeyOrder == <<"S1", "S2", "STU001">>

\* the chaincode's Student struct
NewStudent(id, name, branch, cgpa) ==
    [ID |-> id, Name |-> name, Branch |-> branch, CGPA |-> cgpa]

\* json.Marshal(student): the struct's fields under their json tags
Marshal(student) ==
    << [id |-> student.ID, name |-> student.Name,
        branch |-> student.Branch, cgpa |-> student.CGPA] >>

\* json.Unmarshal(bytes, &student)
Unmarshal(bytes) ==
    [ID |-> bytes[1].id, Name |-> bytes[1].name,
     Branch |-> bytes[1].branch, CGPA |-> bytes[1].cgpa]

\* the students InitLedger writes
SeedStudents ==
    << NewStudent("S1", "Alice", "CSE", "9.1"),
       NewStudent("S2", "Bob", "ECE", "8.5") >>

EmptyLedger == [k \in Ids |-> [val |-> Nil, ver |-> 0]]

\* number of transactions validated so far (the block height)
Height == Cardinality({t \in DOMAIN txs : txs[t].vcode # "NONE"})

(***************************************************************************)
(* The stub and the contract functions.  A simulation returns the error    *)
(* ("" for nil), the payload, the read set (key, version) and the write    *)
(* set (key, value); nothing reaches the world state here.                 *)
(***************************************************************************)
\* mutant: a read sees the write of a transaction that is endorsed and not committed
GetStateUncommitted(state, key) ==
    LET pending == {t \in DOMAIN txs : /\ txs[t].stage \in {"endorsed", "submitted"}
                                        /\ txs[t].vcode = "NONE"
                                        /\ \E w \in txs[t].writes : w[1] = key}
    IN  IF pending = {}
        THEN state[key].val
        ELSE LET t == CHOOSE t \in pending : TRUE
             IN  (CHOOSE w \in txs[t].writes : w[1] = key)[2]

\* ctx.GetStub().GetState(key): the committed value
GetState(state, key) == state[key].val

Result(err, payload, reads, writes) ==
    [err |-> err, payload |-> payload, reads |-> reads, writes |-> writes]

\* mutant: the existence check leaves no read in the read set
StudentExistsUnrecorded(state, id) ==
    Result("", <<GetState(state, id) # Nil>>, {}, {})

StudentExists(state, id) ==
    Result("", <<GetState(state, id) # Nil>>, {<<id, state[id].ver>>}, {})

\* mutant: a seed record is written only where the key holds nothing
InitLedgerKeepsExisting(state) ==
    Result("", Nil, {},
           {<<SeedStudents[i].ID, Marshal(SeedStudents[i])>> :
               i \in {j \in DOMAIN SeedStudents : GetState(state, SeedStudents[j].ID) = Nil}})

InitLedger(state) ==
    Result("", Nil, {},
           {<<SeedStudents[i].ID, Marshal(SeedStudents[i])>> : i \in DOMAIN SeedStudents})

\* mutant: the record is written whether or not the id exists
CreateStudentOverwrites(state, id, name, branch, cgpa) ==
    Result("", Nil, StudentExists(state, id).reads,
           {<<id, Marshal(NewStudent(id, name, branch, cgpa))>>})

CreateStudent(state, id, name, branch, cgpa) ==
    LET exists == StudentExists(state, id) IN
    IF exists.payload[1]
    THEN Result("already exists", Nil, exists.reads, {})
    ELSE Result("", Nil, exists.reads,
                {<<id, Marshal(NewStudent(id, name, branch, cgpa))>>})

ReadStudent(state, id) ==
    LET studentJSON == GetState(state, id) IN
    IF studentJSON = Nil
    THEN Result("does not exist", Nil, {<<id, state[id].ver>>}, {})
    ELSE Result("", <<Unmarshal(studentJSON)>>, {<<id, state[id].ver>>}, {})

GetAllStudents(state) ==
    LET present(k) == GetState(state, k) # Nil
        keys == SelectSeq(KeyOrder, present)
    IN  Result("", [i \in DOMAIN keys |-> Unmarshal(GetState(state, keys[i]))],
               {<<k, state[k].ver>> : k \in Ids}, {})

\* the functions SmartContract exports, with the number of string parameters each takes
ContractFunctions ==
    [InitLedger |-> 0, CreateStudent |-> 4, ReadStudent |-> 1,
     GetAllStudents |-> 0, StudentExists |-> 1]

\* the contract API's dispatch of (function name, arguments) onto SmartContract
Invoke(state, op, args) ==
    IF op \notin DOMAIN ContractFunctions
    THEN Result("function not found", Nil, {}, {})
    ELSE IF Len(args) # ContractFunctions[op]
    THEN Result("incorrect number of params", Nil, {}, {})
    ELSE CASE op = "InitLedger"     -> InitLedger(state)
           [] op = "CreateStudent"  -> CreateStudent(state, args[1], args[2], args[3], args[4])
           [] op = "ReadStudent"    -> ReadStudent(state, args[1])
           [] op = "GetAllStudents" -> GetAllStudents(state)
           [] op = "StudentExists"  -> StudentExists(state, args[1])


(***************************************************************************)
(* The callers: what each REST handler and each client-app function hands  *)
(* to SubmitTransaction / EvaluateTransaction.                             *)
(***************************************************************************)
\* the REST server's Student struct, bound from a request body
RestStudent(id, name, department, year, cgpa) ==
    [ID |-> id, Name |-> name, Department |-> department, Year |-> year, CGPA |-> cgpa]

\* request bodies that bind
Bodies == { RestStudent("S1", "Alice", "CSE", "4", "9.1") }

Call(via, op, args) == [via |-> via, op |-> op, args |-> args]

\* the routes of setupRouter
RestHandlers ==
    {"getAllStudents", "getStudentByID", "createStudent",
     "updateStudent", "deleteStudent", "initLedger"}

initLedger == Call("initLedger", "InitLedger", <<>>)

createStudent(student) ==
    Call("createStudent", "CreateStudent",
         <<student.ID, student.Name, student.Department, student.Year, student.CGPA>>)

updateStudent(id, student) ==
    Call("updateStudent", "UpdateStudent",
         <<id, student.Name, student.Department, student.Year, student.CGPA>>)

deleteStudent(id) == Call("deleteStudent", "DeleteStudent", <<id>>)

\* the client application's submits
appCreateStudent ==
    Call("app.createStudent", "CreateStudent",
         <<"STU001", "Alice", "Computer Science", "4", "9.2">>)

exampleErrorHandling ==
    Call("app.exampleErrorHandling", "UpdateAsset",
         <<"asset70", "blue", "5", "Tomoko", "300">>)

\* CreateStudent invoked with the parameter list the chaincode declares, as any
\* other client of the channel may
contractCreateStudent(id, name, branch, cgpa) ==
    Call("peer", "CreateStudent", <<id, name, branch, cgpa>>)

\* initLedger stands for the client app's initLedger too: the same submit
RestSubmits ==
    {initLedger}
    \cup {createStudent(b) : b \in Bodies}
    \cup {updateStudent("S1", b) : b \in Bodies}
    \cup {deleteStudent("S1")}

AppSubmits == {appCreateStudent}

PeerSubmits ==
    { contractCreateStudent("S1", "Alice", "CSE", "9.1"),
      contractCreateStudent("S1", "Carol", "ME", "7.0"),
      contractCreateStudent("STU001", "Carol", "ME", "7.0") }

\* transferAssetAsync's submit: SubmitAsync("TransferAsset", assetId, "Mark")
transferAssetAsync == Call("async", "TransferAsset", <<"asset1", "Mark">>)

\* SubmitAsync of the functions the chaincode does define
contractSubmitAsync(op, args) == Call("async", op, args)

AsyncCalls ==
    { transferAssetAsync,
      contractSubmitAsync("InitLedger", <<>>),
      contractSubmitAsync("CreateStudent", <<"S1", "Alice", "CSE", "9.1">>),
      contractSubmitAsync("CreateStudent", <<"S1", "Carol", "ME", "7.0">>) }

SubmitCalls == RestSubmits \cup AppSubmits \cup PeerSubmits

\* getAllStudents, getStudentByID (REST) and getAllStudents, readStudentByID (app)
EvaluateCalls ==
    {Call("getAllStudents", "GetAllStudents", <<>>)}
    \cup {Call("getStudentByID", "ReadStudent", <<id>>) : id \in {"S1", "STU001"}}

(***************************************************************************)
(* Errors of the gateway client: the types errors.As and the values        *)
(* errors.Is find in the chain, and the commit status code.                *)
(***************************************************************************)
NoError == [chain |-> {}, code |-> "NONE"]

EndorseError(deadline) ==
    [chain |-> {"EndorseError"} \cup (IF deadline THEN {"DeadlineExceeded"} ELSE {}),
     code |-> "NONE"]

SubmitError == [chain |-> {"SubmitError"}, code |-> "NONE"]

CommitStatusError(deadline) ==
    [chain |-> {"CommitStatusError"} \cup (IF deadline THEN {"DeadlineExceeded"} ELSE {}),
     code |-> "NONE"]

CommitError(code) == [chain |-> {"CommitError"}, code |-> code]

PhaseErrors == {"EndorseError", "SubmitError", "CommitStatusError", "CommitError"}

\* mutant: the commit-status branch does not test for the deadline
ErrorKindNoDeadline(err) ==
    IF "EndorseError" \in err.chain THEN "Endorse"
    ELSE IF "SubmitError" \in err.chain THEN "Submit"
    ELSE IF "CommitStatusError" \in err.chain THEN "CommitStatus"
    ELSE IF "CommitError" \in err.chain THEN "Commit"
    ELSE "unexpected"

\* exampleErrorHandling's errors.As / errors.Is chain
ErrorKind(err) ==
    IF "EndorseError" \in err.chain THEN "Endorse"
    ELSE IF "SubmitError" \in err.chain THEN "Submit"
    ELSE IF "CommitStatusError" \in err.chain
         THEN IF "DeadlineExceeded" \in err.chain
              THEN "CommitStatusTimeout"
              ELSE "CommitStatus"
    ELSE IF "CommitError" \in err.chain THEN "Commit"
    ELSE "unexpected"

\* what a REST handler answers a finished submit with: the status, the handler's
\* text, and the error it formats into it
Answered(status, text, err) == [status |-> status, text |-> text, err |-> err]

\* mutant: a commit-status timeout is answered as a success
ResponseOkOnTimeout(via, err) ==
    IF err = NoError \/ "DeadlineExceeded" \in err.chain
    THEN Answered(200, "ok", err)
    ELSE Answered(500, "failed", err)

Response(via, err) ==
    IF err = NoError
    THEN CASE via = "initLedger"    -> Answered(200, "Ledger initialized successfully", err)
           [] via = "createStudent" -> Answered(201, "student", err)
           [] via = "updateStudent" -> Answered(200, "student", err)
           [] via = "deleteStudent" -> Answered(200, "Student deleted successfully", err)
    ELSE CASE via = "initLedger"    -> Answered(500, "Failed to initialize ledger", err)
           [] via = "createStudent" -> Answered(500, "Failed to create student", err)
           [] via = "updateStudent" -> Answered(500, "Failed to update student", err)
           [] via = "deleteStudent" -> Answered(500, "Failed to delete student", err)

\* no evaluate has run since the last commit
NoEval == [call |-> Call("none", "none", <<>>), result |-> [err |-> "", payload |-> Nil]]

(***************************************************************************)
(* Submit: proposal, endorsement, ordering, commit status, outcome         *)
(***************************************************************************)
\* a submit as it begins; seen: the block height its endorsement simulated on
NewTx(call) ==
    [via |-> call.via, op |-> call.op, args |-> call.args,
     stage |-> "proposed", reads |-> {}, writes |-> {},
     err |-> NoError, cause |-> "none", ccerr |-> "",
     seen |-> 0, vcode |-> "NONE", block |-> 0]

\* the caller's SubmitTransaction returns
Return(t, err, cause) ==
    txs' = [txs EXCEPT ![t].stage = "done", ![t].err = err, ![t].cause = cause]

\* SubmitTransaction is called: the proposal is built and signed
Begin(call) ==
    /\ Len(txs) < MaxTx
    /\ call.via \in RestHandlers => pc = "serving"
    /\ txs' = Append(txs, NewTx(call))
    /\ UNCHANGED <<ledger, orderQueue, lastEval, mainVars>>

\* mutant: a proposal the contract refuses is sent to ordering all the same
EndorseRefusedIsOrdered(t) ==
    /\ txs[t].stage = "proposed"
    /\ LET r == Invoke(ledger, txs[t].op, txs[t].args) IN
       /\ txs' = [txs EXCEPT ![t].stage = IF r.err # "" THEN "done" ELSE "endorsed",
                             ![t].err = IF r.err # "" THEN EndorseError(FALSE) ELSE NoError,
                             ![t].cause = IF r.err # "" THEN "rejected" ELSE "none",
                             ![t].ccerr = r.err, ![t].seen = Height,
                             ![t].reads = r.reads, ![t].writes = r.writes]
       /\ orderQueue' = IF r.err # "" THEN Append(orderQueue, t) ELSE orderQueue
    /\ UNCHANGED <<ledger, lastEval, mainVars>>

\* phase 1, answered by the peer: the contract is simulated on the committed state
Endorse(t) ==
    /\ txs[t].stage = "proposed"
    /\ LET r == Invoke(ledger, txs[t].op, txs[t].args) IN
       IF r.err # ""
       THEN txs' = [txs EXCEPT ![t].stage = "done", ![t].err = EndorseError(FALSE),
                               ![t].cause = "rejected", ![t].ccerr = r.err]
       ELSE txs' = [txs EXCEPT ![t].stage = "endorsed", ![t].seen = Height,
                               ![t].reads = r.reads, ![t].writes = r.writes]
    /\ UNCHANGED <<ledger, orderQueue, lastEval, mainVars>>

\* phase 1, not answered: the peer is unreachable, or the endorse timeout passes
EndorseFail(t, deadline) ==
    /\ txs[t].stage = "proposed"
    /\ Return(t, EndorseError(deadline), IF deadline THEN "timeout" ELSE "unreachable")
    /\ UNCHANGED <<ledger, orderQueue, lastEval, mainVars>>

\* phase 2: the endorsed envelope is sent to ordering
Submit(t) ==
    /\ txs[t].stage = "endorsed"
    /\ txs' = [txs EXCEPT ![t].stage = "submitted"]
    /\ orderQueue' = Append(orderQueue, t)
    /\ UNCHANGED <<ledger, lastEval, mainVars>>

\* phase 2 fails: ordering rejects the envelope or is unreachable
SubmitFail(t) ==
    /\ txs[t].stage = "endorsed"
    /\ Return(t, SubmitError, "ordering")
    /\ UNCHANGED <<ledger, orderQueue, lastEval, mainVars>>

\* the read set is current: every key read still has the version read
ReadsCurrent(state, reads) == \A r \in reads : state[r[1]].ver = r[2]

WriteSet(state, writes, version) ==
    [k \in Ids |->
        IF \E w \in writes : w[1] = k
        THEN [val |-> (CHOOSE w \in writes : w[1] = k)[2], ver |-> version]
        ELSE state[k]]

\* the ledger validates and commits the next ordered transaction
Validate ==
    /\ orderQueue # <<>>
    /\ LET t == Head(orderQueue)
           valid == ReadsCurrent(ledger, txs[t].reads)
           block == Height + 1
       IN  /\ ledger' = IF valid THEN WriteSet(ledger, txs[t].writes, block) ELSE ledger
           /\ txs' = [txs EXCEPT ![t].vcode = IF valid THEN "VALID" ELSE "MVCC_READ_CONFLICT",
                                 ![t].block = block]
    /\ orderQueue' = Tail(orderQueue)
    /\ lastEval' = NoEval
    /\ UNCHANGED mainVars

\* phases 3 and 4: the commit status arrives and is checked
CommitStatus(t) ==
    /\ txs[t].stage = "submitted"
    /\ txs[t].vcode # "NONE"
    /\ IF txs[t].vcode = "VALID"
       THEN Return(t, NoError, "ok")
       ELSE Return(t, CommitError(txs[t].vcode), "invalidated")
    /\ UNCHANGED <<ledger, orderQueue, lastEval, mainVars>>

\* mutant: the timeout withdraws the transaction from ordering
CommitStatusTimeoutWithdraws(t) ==
    /\ txs[t].stage = "submitted"
    /\ txs[t].vcode = "NONE"
    /\ Return(t, CommitStatusError(TRUE), "status-timeout")
    /\ orderQueue' = SelectSeq(orderQueue, LAMBDA u : u # t)
    /\ UNCHANGED <<ledger, lastEval, mainVars>>

\* phase 3: the commit-status timeout passes before the outcome is known
CommitStatusTimeout(t) ==
    /\ txs[t].stage = "submitted"
    /\ txs[t].vcode = "NONE"
    /\ Return(t, CommitStatusError(TRUE), "status-timeout")
    /\ UNCHANGED <<ledger, orderQueue, lastEval, mainVars>>

\* phase 3: the status cannot be retrieved for another reason
CommitStatusFail(t) ==
    /\ txs[t].stage = "submitted"
    /\ Return(t, CommitStatusError(FALSE), "status-unavailable")
    /\ UNCHANGED <<ledger, orderQueue, lastEval, mainVars>>

(***************************************************************************)
(* SubmitAsync: the call returns after phase 2 with a commit handle; the   *)
(* caller waits on the handle with commit.Status()                         *)
(***************************************************************************)
\* SubmitAsync has returned its result and the commit handle
AsyncReturned(t) ==
    /\ txs[t].via = "async"
    /\ txs[t].stage = "submitted" \/ txs[t].cause \in {"ok", "unsuccessful"}

\* the status commit.Status() returns for a validated transaction
Status(t) ==
    [TransactionID |-> t, Code |-> txs[t].vcode, Successful |-> txs[t].vcode = "VALID"]

\* commit.Status() returns the status, successful or not, with a nil error
AsyncStatus(t) ==
    /\ txs[t].via = "async"
    /\ txs[t].stage = "submitted"
    /\ txs[t].vcode # "NONE"
    /\ Return(t, NoError, IF Status(t).Successful THEN "ok" ELSE "unsuccessful")
    /\ UNCHANGED <<ledger, orderQueue, lastEval, mainVars>>

Report(text, txid, code) == [text |-> text, txid |-> txid, code |-> code]

\* mutant: the status's Successful flag is not looked at
transferAssetAsyncIgnoresStatus(t) ==
    IF txs[t].stage # "done"
    THEN Report(IF txs[t].stage = "submitted"
                THEN "Waiting for transaction commit" ELSE "", 0, "")
    ELSE IF ErrorKind(txs[t].err) \in {"Endorse", "Submit"}
    THEN Report("panic: failed to submit transaction asynchronously", 0, "")
    ELSE IF txs[t].err # NoError
    THEN Report("panic: failed to get commit status", 0, "")
    ELSE Report("Transaction committed successfully", 0, "")

\* what transferAssetAsync has last told its caller about submit t
transferAssetAsyncReport(t) ==
    IF txs[t].stage # "done"
    THEN Report(IF txs[t].stage = "submitted"
                THEN "Waiting for transaction commit" ELSE "", 0, "")
    ELSE IF ErrorKind(txs[t].err) \in {"Endorse", "Submit"}
    THEN Report("panic: failed to submit transaction asynchronously", 0, "")
    ELSE IF txs[t].err # NoError
    THEN Report("panic: failed to get commit status", 0, "")
    ELSE IF ~Status(t).Successful
    THEN Report("panic: transaction failed to commit with status",
                Status(t).TransactionID, Status(t).Code)
    ELSE Report("Transaction committed successfully", 0, "")

(***************************************************************************)
(* The submitting REST handlers, request by request                        *)
(***************************************************************************)
Request(handler, bound, submits, answer) ==
    [handler |-> handler, bound |-> bound, submits |-> submits, answer |-> answer]

\* createStudent, updateStudent: ShouldBindJSON fails; 400 is sent and the
\* handler returns
BadRequest(h) ==
    /\ h \in {"createStudent", "updateStudent"}
    /\ pc = "serving"
    /\ Len(requests) < MaxRequests
    /\ requests' = Append(requests,
           Request(h, FALSE, <<>>, <<Answered(400, "Invalid request body", NoError)>>))
    /\ UNCHANGED <<ledgerVars, prog, pc, step, conn, identity, sign, gw, contract, defers,
                   closes, inflight, served, how, fs>>

\* a handler, its body bound where it has one, calls SubmitTransaction
HandleSubmit(call) ==
    /\ call.via \in RestHandlers
    /\ pc = "serving"
    /\ Len(requests) < MaxRequests
    /\ Len(txs) < MaxTx
    /\ txs' = Append(txs, NewTx(call))
    /\ requests' = Append(requests, Request(call.via, TRUE, <<Len(txs) + 1>>, Nil))
    /\ UNCHANGED <<ledger, orderQueue, lastEval, prog, pc, step, conn, identity, sign, gw,
                   contract, defers, closes, inflight, served, how, fs>>

\* SubmitTransaction has returned: the handler sends its answer and returns
Respond(r) ==
    /\ requests[r].answer = Nil
    /\ LET t == requests[r].submits[Len(requests[r].submits)] IN
       /\ txs[t].stage = "done"
       /\ requests' = [requests EXCEPT ![r].answer = <<Response(requests[r].handler, txs[t].err)>>]
    /\ UNCHANGED <<ledgerVars, prog, pc, step, conn, identity, sign, gw, contract, defers,
                   closes, inflight, served, how, fs>>

(***************************************************************************)
(* Evaluate: one peer simulates the function; the write set is dropped     *)
(***************************************************************************)
EvaluateResult(call) ==
    LET r == Invoke(ledger, call.op, call.args) IN [err |-> r.err, payload |-> r.payload]

EvaluateTransaction(call) ==
    /\ lastEval' = [call |-> call, result |-> EvaluateResult(call)]
    /\ UNCHANGED <<ledger, txs, orderQueue, mainVars>>

(***************************************************************************)
(* main of the REST server and of the client application                   *)
(***************************************************************************)
\* the client app's calls after start-up, in main's order
AppCalls ==
    << Call("app.initLedger", "InitLedger", <<>>),
       Call("app.getAllStudents", "GetAllStudents", <<>>),
       appCreateStudent,
       Call("app.readStudentByID", "ReadStudent", <<"STU001">>),
       exampleErrorHandling >>

NoRequests == [h \in RestHandlers |-> 0]

RECURSIVE Sum(_, _)
Sum(f, S) == IF S = {} THEN 0 ELSE LET x == CHOOSE x \in S : TRUE IN f[x] + Sum(f, S \ {x})

InFlight == Sum(inflight, RestHandlers)

\* a panic: main stops and its deferred calls run
Panic ==
    /\ pc' = "unwinding"
    /\ how' = "panic"

\* newGrpcConnection: the TLS certificate is read and parsed and the peer dialled;
\* the client app defers the connection's Close right after
NewGrpcConnection ==
    /\ pc = "newGrpcConnection"
    /\ \/ /\ conn' = "open"
          /\ pc' = "newIdentity"
          /\ defers' = IF prog = "app" THEN <<"conn.Close">> ELSE defers
          /\ UNCHANGED how
       \/ /\ Panic
          /\ UNCHANGED <<conn, defers>>
    /\ UNCHANGED <<requests, fs, prog, step, identity, sign, gw, contract, closes, inflight, served, ledgerVars>>

\* the files a credential directory may hold: certificates, private keys, and a
\* file that is neither
CertFiles == {"cert.User1", "cert.Admin", "notes.txt"}

KeyFiles == {"key.User1", "key.Admin", "notes.txt"}

\* the orders in which a directory of at most MaxFiles of these files may be listed
Listings(files) ==
    {l \in UNION {[1..n -> files] : n \in 0..MaxFiles} :
        \A i, j \in DOMAIN l : l[i] = l[j] => i = j}

\* a directory: whether it can be opened, and its entries in the order
\* Readdirnames returns them
Dirs(files) ==
    {[readable |-> FALSE, listing |-> <<>>]}
    \cup {[readable |-> TRUE, listing |-> l] : l \in Listings(files)}

\* one certificate in signcerts and one key in keystore, as the credential
\* tooling issues them
IssuedCredentials ==
    [cert |-> [readable |-> TRUE, listing |-> <<"cert.User1">>],
     key  |-> [readable |-> TRUE, listing |-> <<"key.User1">>]]

Loaded(data, err) == [data |-> data, err |-> err]

\* os.Open, dir.Readdirnames(1), os.ReadFile of the one name returned
readFirstFile(dir) ==
    IF ~dir.readable THEN Loaded("", "open")
    ELSE IF dir.listing = <<>> THEN Loaded("", "EOF")
    ELSE Loaded(dir.listing[1], "")

\* identity.CertificateFromPEM on what readFirstFile returned
CertificateFromPEM(loaded) ==
    IF loaded.err # "" THEN Loaded("", "failed to read certificate file")
    ELSE IF loaded.data \in {"cert.User1", "cert.Admin"} THEN Loaded(loaded.data, "")
    ELSE Loaded("", "not a certificate")

\* identity.PrivateKeyFromPEM on what readFirstFile returned
PrivateKeyFromPEM(loaded) ==
    IF loaded.err # "" THEN Loaded("", "failed to read private key file")
    ELSE IF loaded.data \in {"key.User1", "key.Admin"} THEN Loaded(loaded.data, "")
    ELSE Loaded("", "not a private key")

\* mutant: a certificate that cannot be loaded is logged and start-up goes on
NewIdentityContinues ==
    /\ pc = "newIdentity"
    /\ pc' = "newSign"
    /\ identity' = IF CertificateFromPEM(readFirstFile(fs.cert)).err = ""
                   THEN readFirstFile(fs.cert).data ELSE "nil"
    /\ UNCHANGED <<requests, fs, prog, step, conn, sign, gw, contract, defers, closes, inflight, served,
                   how, ledgerVars>>

\* newIdentity: the certificate is read from certPath and parsed
NewIdentity ==
    /\ pc = "newIdentity"
    /\ LET certificate == CertificateFromPEM(readFirstFile(fs.cert)) IN
       IF certificate.err = ""
       THEN /\ identity' = certificate.data
            /\ pc' = "newSign"
            /\ UNCHANGED how
       ELSE /\ Panic
            /\ UNCHANGED identity
    /\ UNCHANGED <<requests, fs, prog, step, conn, sign, gw, contract, defers, closes, inflight, served,
                   ledgerVars>>

\* newSign: the private key is read from keyPath and parsed
NewSign ==
    /\ pc = "newSign"
    /\ LET privateKey == PrivateKeyFromPEM(readFirstFile(fs.key)) IN
       IF privateKey.err = ""
       THEN /\ sign' = privateKey.data
            /\ pc' = "Connect"
            /\ UNCHANGED how
       ELSE /\ Panic
            /\ UNCHANGED sign
    /\ UNCHANGED <<requests, fs, prog, step, conn, identity, gw, contract, defers, closes, inflight, served,
                   ledgerVars>>

\* client.Connect; the client app defers gw.Close right after
Connect ==
    /\ pc = "Connect"
    /\ \/ /\ gw' = "open"
          /\ pc' = "GetContract"
          /\ defers' = IF prog = "app" THEN <<"gw.Close">> \o defers ELSE defers
          /\ UNCHANGED how
       \/ /\ Panic
          /\ UNCHANGED <<gw, defers>>
    /\ UNCHANGED <<requests, fs, prog, step, conn, identity, sign, contract, closes, inflight, served, ledgerVars>>

\* gw.GetNetwork(channelName).GetContract(chaincodeName); in the server,
\* initFabricClient returns and main defers gw.Close
GetContract ==
    /\ pc = "GetContract"
    /\ contract' = "bound"
    /\ IF prog = "server"
       THEN /\ defers' = <<"gw.Close">> \o defers
            /\ pc' = "Run"
            /\ UNCHANGED step
       ELSE /\ pc' = "calls"
            /\ step' = 1
            /\ UNCHANGED defers
    /\ UNCHANGED <<requests, fs, prog, conn, identity, sign, gw, closes, inflight, served, how, ledgerVars>>

\* router.Run(listenAddr): the server listens, or log.Fatalf ends the process
Run ==
    /\ pc = "Run"
    /\ \/ /\ pc' = "serving"
          /\ UNCHANGED how
       \/ /\ pc' = "exited"
          /\ how' = "fatal"
    /\ UNCHANGED <<requests, fs, prog, step, conn, identity, sign, gw, contract, defers, closes, inflight, served,
                   ledgerVars>>

\* the router hands a request to its handler
Accept(h) ==
    /\ pc = "serving"
    /\ InFlight < MaxInflight
    /\ served + InFlight < MaxServed
    /\ inflight' = [inflight EXCEPT ![h] = @ + 1]
    /\ UNCHANGED <<requests, fs, prog, pc, step, conn, identity, sign, gw, contract, defers, closes, served, how,
                   ledgerVars>>

\* the handler answers
Answer(h) ==
    /\ inflight[h] > 0
    /\ inflight' = [inflight EXCEPT ![h] = @ - 1]
    /\ served' = served + 1
    /\ UNCHANGED <<requests, fs, prog, pc, step, conn, identity, sign, gw, contract, defers, closes, how,
                   ledgerVars>>

\* the contract API refuses the call whatever the ledger holds
NeverEndorsed(call) ==
    Invoke(EmptyLedger, call.op, call.args).err
        \in {"function not found", "incorrect number of params"}

\* one call of the client app returns: every function but exampleErrorHandling
\* panics on an error, and exampleErrorHandling panics when there is none
AppCall ==
    /\ pc = "calls"
    /\ \E failed \in BOOLEAN :
          /\ NeverEndorsed(AppCalls[step]) => failed
          /\ IF failed = (AppCalls[step].via = "app.exampleErrorHandling")
             THEN /\ UNCHANGED how
                  /\ IF step < Len(AppCalls)
                     THEN /\ step' = step + 1
                          /\ UNCHANGED pc
                     ELSE /\ pc' = "unwinding"
                          /\ UNCHANGED step
             ELSE /\ Panic
                  /\ UNCHANGED step
    /\ UNCHANGED <<requests, fs, prog, conn, identity, sign, gw, contract, defers, closes, inflight, served,
                   ledgerVars>>

\* main returns or panics: the deferred calls run, the last registered first
Unwind ==
    /\ pc = "unwinding"
    /\ IF defers = <<>>
       THEN /\ pc' = "exited"
            /\ how' = IF how = "running" THEN "return" ELSE how
            /\ UNCHANGED <<gw, conn, closes, defers>>
       ELSE /\ defers' = Tail(defers)
            /\ IF Head(defers) = "gw.Close"
               THEN /\ gw' = "closed"
                    /\ closes' = [closes EXCEPT !.gw = @ + 1]
                    /\ UNCHANGED conn
               ELSE /\ conn' = "closed"
                    /\ closes' = [closes EXCEPT !.conn = @ + 1]
                    /\ UNCHANGED gw
            /\ UNCHANGED <<pc, how>>
    /\ UNCHANGED <<requests, fs, prog, step, identity, sign, contract, inflight, served, ledgerVars>>

(***************************************************************************)
(* Specification                                                           *)
(***************************************************************************)
InitLedgerState ==
    /\ ledger = EmptyLedger
    /\ txs = <<>>
    /\ orderQueue = <<>>
    /\ lastEval = NoEval

\* the REST server is up and serving; the ledger holds nothing yet
Init ==
    /\ InitLedgerState
    /\ prog = "server"
    /\ pc = "serving"
    /\ step = 0
    /\ fs = IssuedCredentials
    /\ conn = "open" /\ identity = "cert.User1" /\ sign = "key.User1"
    /\ gw = "open" /\ contract = "bound"
    /\ defers = <<"gw.Close">>
    /\ closes = [gw |-> 0, conn |-> 0]
    /\ inflight = NoRequests
    /\ served = 0
    /\ how = "running"
    /\ requests = <<>>

Next ==
    \/ \E call \in SubmitCalls : Begin(call)
    \/ \E t \in DOMAIN txs : Endorse(t)
    \/ \E t \in DOMAIN txs, deadline \in BOOLEAN : EndorseFail(t, deadline)
    \/ \E t \in DOMAIN txs : Submit(t)
    \/ \E t \in DOMAIN txs : SubmitFail(t)
    \/ Validate
    \/ \E t \in DOMAIN txs : CommitStatus(t)
    \/ \E t \in DOMAIN txs : CommitStatusTimeout(t)
    \/ \E t \in DOMAIN txs : CommitStatusFail(t)
    \/ \E call \in EvaluateCalls : EvaluateTransaction(call)

Spec == Init /\ [][Next]_vars

\* the submit pipeline alone
NextSubmit ==
    \/ \E call \in SubmitCalls : Begin(call)
    \/ \E t \in DOMAIN txs : Endorse(t)
    \/ \E t \in DOMAIN txs, deadline \in BOOLEAN : EndorseFail(t, deadline)
    \/ \E t \in DOMAIN txs : Submit(t)
    \/ \E t \in DOMAIN txs : SubmitFail(t)
    \/ Validate
    \/ \E t \in DOMAIN txs : CommitStatus(t)
    \/ \E t \in DOMAIN txs : CommitStatusTimeout(t)
    \/ \E t \in DOMAIN txs : CommitStatusFail(t)

SpecSubmit == Init /\ [][NextSubmit]_vars

\* asynchronous submits on the same ledger
NextAsync ==
    \/ \E call \in AsyncCalls : Begin(call)
    \/ \E t \in DOMAIN txs : Endorse(t)
    \/ \E t \in DOMAIN txs, deadline \in BOOLEAN : EndorseFail(t, deadline)
    \/ \E t \in DOMAIN txs : Submit(t)
    \/ \E t \in DOMAIN txs : SubmitFail(t)
    \/ Validate
    \/ \E t \in DOMAIN txs : AsyncStatus(t)
    \/ \E t \in DOMAIN txs : CommitStatusTimeout(t)
    \/ \E t \in DOMAIN txs : CommitStatusFail(t)

SpecAsync == Init /\ [][NextAsync]_vars

\* the REST server's submitting handlers, each request followed to its answer
NextRest ==
    \/ \E h \in RestHandlers : BadRequest(h)
    \/ \E call \in RestSubmits : HandleSubmit(call)
    \/ \E t \in DOMAIN txs : Endorse(t)
    \/ \E t \in DOMAIN txs, deadline \in BOOLEAN : EndorseFail(t, deadline)
    \/ \E t \in DOMAIN txs : Submit(t)
    \/ \E t \in DOMAIN txs : SubmitFail(t)
    \/ Validate
    \/ \E t \in DOMAIN txs : CommitStatus(t)
    \/ \E t \in DOMAIN txs : CommitStatusTimeout(t)
    \/ \E t \in DOMAIN txs : CommitStatusFail(t)
    \/ \E r \in DOMAIN requests : Respond(r)

SpecRest == Init /\ [][NextRest]_vars

\* either program from the start of main
InitMain ==
    /\ InitLedgerState
    /\ prog \in {"server", "app"}
    /\ pc = "newGrpcConnection"
    /\ step = 0
    /\ fs \in [cert : Dirs(CertFiles), key : Dirs(KeyFiles)]
    /\ conn = "nil" /\ identity = "nil" /\ sign = "nil" /\ gw = "nil" /\ contract = "nil"
    /\ defers = <<>>
    /\ closes = [gw |-> 0, conn |-> 0]
    /\ inflight = NoRequests
    /\ served = 0
    /\ how = "running"
    /\ requests = <<>>

NextMain ==
    \/ NewGrpcConnection
    \/ NewIdentity
    \/ NewSign
    \/ Connect
    \/ GetContract
    \/ Run
    \/ \E h \in RestHandlers : Accept(h)
    \/ \E h \in RestHandlers : Answer(h)
    \/ AppCall
    \/ Unwind

SpecMain == InitMain /\ [][NextMain]_vars


(***************************************************************************)
(* Properties                                                              *)
(***************************************************************************)
Done(t) == txs[t].stage = "done"

\* the caller was told the submit committed
Succeeded(t) == Done(t) /\ txs[t].err = NoError

\* the caller retrieved the commit status
StatusRetrieved(t) == Done(t) /\ txs[t].cause \in {"ok", "invalidated"}

IsCreate(t) == txs[t].op = "CreateStudent"

IsInitLedger(t) == txs[t].op = "InitLedger"

SeedIds == {SeedStudents[i].ID : i \in DOMAIN SeedStudents}

\* two CreateStudent for one id, or a CreateStudent for a seed id and an InitLedger
Conflicting(t, u) ==
    \/ IsCreate(t) /\ IsCreate(u) /\ txs[t].args[1] = txs[u].args[1]
    \/ IsCreate(t) /\ IsInitLedger(u) /\ txs[t].args[1] \in SeedIds
    \/ IsInitLedger(t) /\ IsCreate(u) /\ txs[u].args[1] \in SeedIds

\* both were endorsed before either was validated, and both callers waited for
\* the commit status: the two submits were in flight together
InFlightTogether(t, u) ==
    /\ StatusRetrieved(t) /\ StatusRetrieved(u)
    /\ txs[t].seen < txs[u].block
    /\ txs[u].seen < txs[t].block

\* C1, as stated: of two conflicting submits in flight together, exactly one is
\* reported as succeeded and the other as a CommitError
C1_ExactlyOneReportedCommitted ==
    \A t \in DOMAIN txs, u \in DOMAIN txs :
        (t # u /\ Conflicting(t, u) /\ InFlightTogether(t, u)) =>
            \/ Succeeded(t) /\ ErrorKind(txs[u].err) = "Commit"
            \/ Succeeded(u) /\ ErrorKind(txs[t].err) = "Commit"

\* C1, amended: two CreateStudent for one id are never both committed nor both
\* reported as succeeded; once both are validated the one ordered later is an MVCC
\* read conflict, which a caller who retrieves the status is given as a
\* CommitError; an InitLedger, which reads nothing, is never invalidated
C1_AtMostOneCreateCommits ==
    /\ \A t \in DOMAIN txs, u \in DOMAIN txs :
          (t # u /\ IsCreate(t) /\ IsCreate(u) /\ txs[t].args[1] = txs[u].args[1]) =>
              /\ ~(Succeeded(t) /\ Succeeded(u))
              /\ ~(txs[t].vcode = "VALID" /\ txs[u].vcode = "VALID")
              /\ (txs[t].vcode # "NONE" /\ txs[u].vcode # "NONE"
                      /\ txs[t].block < txs[u].block) =>
                    txs[u].vcode = "MVCC_READ_CONFLICT"
    /\ \A t \in DOMAIN txs :
          /\ StatusRetrieved(t) => (Succeeded(t) <=> txs[t].vcode = "VALID")
          /\ (StatusRetrieved(t) /\ txs[t].vcode = "MVCC_READ_CONFLICT") =>
                /\ ErrorKind(txs[t].err) = "Commit"
                /\ txs[t].err.code = "MVCC_READ_CONFLICT"
          /\ (IsInitLedger(t) /\ txs[t].vcode # "NONE") => txs[t].vcode = "VALID"

\* two CreateStudent for one id, in flight together: one succeeded, the other got
\* a CommitError
C1_Witness ==
    \E t \in DOMAIN txs, u \in DOMAIN txs :
        /\ t # u /\ IsCreate(t) /\ IsCreate(u) /\ txs[t].args[1] = txs[u].args[1]
        /\ InFlightTogether(t, u)
        /\ Succeeded(t)
        /\ ErrorKind(txs[u].err) = "Commit"

\* the record a CreateStudent submit carries: its id, name, branch and, last, cgpa
Submitted(t) ==
    NewStudent(txs[t].args[1], txs[t].args[2], txs[t].args[3], txs[t].args[Len(txs[t].args)])

\* a committed create whose key no later transaction has written
LastWriter(t) ==
    /\ IsCreate(t)
    /\ txs[t].vcode = "VALID"
    /\ ledger[txs[t].args[1]].ver = txs[t].block

ReadsBack(t) ==
    ReadStudent(ledger, txs[t].args[1]).payload = <<Submitted(t)>>

\* the submits this repository's own callers make
FromCaller(t) == txs[t].via # "peer"

\* C2, as stated: a CreateStudent that one of this repository's callers submits for
\* an id not on the ledger is endorsed when the peer answers, and from its commit
\* until the key is written again ReadStudent returns the submitted fields
C2_CallersCreateReadsBack ==
    /\ [][\A t \in DOMAIN txs :
            (Endorse(t) /\ IsCreate(t) /\ FromCaller(t)
                /\ GetState(ledger, txs[t].args[1]) = Nil)
            => txs'[t].stage = "endorsed"]_vars
    /\ [](\A t \in DOMAIN txs : (FromCaller(t) /\ LastWriter(t)) => ReadsBack(t))

\* the round trip for the parameter list the chaincode declares (id, name, branch,
\* cgpa): every committed create reads back until the key is written again
RoundTripOnContractSignature ==
    \A t \in DOMAIN txs : (Len(txs[t].args) = 4 /\ LastWriter(t)) => ReadsBack(t)

\* C3: a CreateStudent that the peer simulates while the id holds a record ends at
\* endorsement with an EndorseError raised by the contract (for the declared
\* parameter list, "already exists"); nothing is ordered and the ledger is unchanged
C3_DuplicateCreateRejected ==
    [][\A t \in DOMAIN txs :
          (Endorse(t) /\ IsCreate(t) /\ GetState(ledger, txs[t].args[1]) # Nil)
          => /\ txs'[t].stage = "done"
             /\ ErrorKind(txs'[t].err) = "Endorse"
             /\ txs'[t].cause = "rejected"
             /\ Len(txs[t].args) = 4 => txs'[t].ccerr = "already exists"
             /\ txs'[t].writes = {}
             /\ orderQueue' = orderQueue
             /\ ledger' = ledger]_vars

\* a create with the declared parameter list was refused as a duplicate, and the
\* record is on the ledger
C3_Witness ==
    \E t \in DOMAIN txs :
        /\ IsCreate(t) /\ Done(t)
        /\ txs[t].ccerr = "already exists"
        /\ GetState(ledger, txs[t].args[1]) # Nil

InQueue(t) == \E i \in DOMAIN orderQueue : orderQueue[i] = t

\* C5: a submit that ends at endorsement gives its caller an EndorseError and
\* leaves the ledger and the ordering queue as they were; it is never ordered and
\* never validated
C5_EndorseFailureNotOrdered ==
    /\ [][\A t \in DOMAIN txs :
            (txs[t].stage = "proposed" /\ txs'[t].stage = "done")
            => /\ ErrorKind(txs'[t].err) = "Endorse"
               /\ ledger' = ledger
               /\ orderQueue' = orderQueue]_vars
    /\ [](\A t \in DOMAIN txs :
            (Done(t) /\ ErrorKind(txs[t].err) = "Endorse")
            => /\ ~InQueue(t)
               /\ txs[t].vcode = "NONE"
               /\ txs[t].block = 0
               /\ ~Succeeded(t))

\* a submit was refused at endorsement while another one committed
C5_Witness ==
    \E t \in DOMAIN txs, u \in DOMAIN txs :
        /\ Done(t) /\ txs[t].cause = "rejected"
        /\ txs[u].vcode = "VALID"

\* C6: every failed submit is exactly one of the four phase errors, the one of
\* the phase it failed in; a commit-status timeout is told from the other
\* commit-status failures by the deadline, and an invalidated transaction is a
\* CommitError carrying the validation code
C6_PhaseErrorsDistinct ==
    \A t \in DOMAIN txs :
        (Done(t) /\ txs[t].err # NoError) =>
            /\ Cardinality(txs[t].err.chain \cap PhaseErrors) = 1
            /\ ErrorKind(txs[t].err) # "unexpected"
            /\ txs[t].cause \in {"rejected", "unreachable", "timeout"}
                  <=> ErrorKind(txs[t].err) = "Endorse"
            /\ txs[t].cause = "ordering" <=> ErrorKind(txs[t].err) = "Submit"
            /\ txs[t].cause = "status-timeout"
                  <=> ErrorKind(txs[t].err) = "CommitStatusTimeout"
            /\ txs[t].cause = "status-unavailable"
                  <=> ErrorKind(txs[t].err) = "CommitStatus"
            /\ txs[t].cause = "invalidated"
                  <=> ErrorKind(txs[t].err) = "Commit"
            /\ txs[t].cause = "invalidated"
                  => txs[t].err.code = txs[t].vcode /\ txs[t].vcode # "VALID"

\* one submit timed out waiting for its commit status and another was invalidated
C6_Witness ==
    \E t \in DOMAIN txs, u \in DOMAIN txs :
        /\ Done(t) /\ txs[t].cause = "status-timeout"
        /\ Done(u) /\ txs[u].cause = "invalidated"

\* C7: a submit whose caller timed out waiting for the commit status stays with
\* the ledger: until it is validated it is still in the ordering queue, with the
\* write set it was endorsed with
C7_TimedOutStillOrdered ==
    \A t \in DOMAIN txs :
        (Done(t) /\ txs[t].cause = "status-timeout" /\ txs[t].vcode = "NONE")
        => InQueue(t)

\* the caller was given a commit-status timeout and the transaction's writes are
\* on the ledger
C7_Witness ==
    \E t \in DOMAIN txs :
        /\ Done(t) /\ txs[t].cause = "status-timeout"
        /\ ErrorKind(txs[t].err) = "CommitStatusTimeout"
        /\ txs[t].vcode = "VALID"
        /\ txs[t].writes # {}
        /\ \A w \in txs[t].writes : ledger[w[1]] = [val |-> w[2], ver |-> txs[t].block]

\* the errors a submit ends with when the peer or the orderer is unreachable or a
\* phase times out
TransportErrors ==
    {EndorseError(FALSE), EndorseError(TRUE), SubmitError,
     CommitStatusError(TRUE), CommitStatusError(FALSE)}

\* C8, as stated: a delete for an id that holds no record fails, and what the
\* handler answers differs from what it answers when the peer is unreachable or a
\* phase times out
C8_DeleteAbsentDistinguishable ==
    [][\A t \in DOMAIN txs :
          (Endorse(t) /\ txs[t].via = "deleteStudent"
              /\ GetState(ledger, txs[t].args[1]) = Nil)
          => /\ txs'[t].stage = "done"
             /\ Response("deleteStudent", txs'[t].err).status # 200
             /\ \A e \in TransportErrors :
                   Response("deleteStudent", txs'[t].err) # Response("deleteStudent", e)]_vars

\* a transaction that is endorsed, not yet committed, and writes the key
PendingWrite(key) ==
    \E t \in DOMAIN txs :
        /\ txs[t].stage \in {"endorsed", "submitted"}
        /\ txs[t].vcode = "NONE"
        /\ \E w \in txs[t].writes : w[1] = key

Constructed ==
    /\ conn = "open"
    /\ identity # "nil"
    /\ sign # "nil"
    /\ gw = "open"
    /\ contract = "bound"

\* C9: the REST server has a request in hand, or has answered one, only with the
\* connection, identity, signer, gateway and contract all constructed; when a
\* construction step fails main is over and no request was ever accepted
C9_ServesOnlyConstructed ==
    /\ (pc = "serving" \/ InFlight > 0 \/ served > 0) => (prog = "server" /\ Constructed)
    /\ (prog = "server" /\ how = "panic")
          => /\ pc \in {"unwinding", "exited"}
             /\ ~Constructed
             /\ InFlight = 0
             /\ served = 0

\* the server has answered a request and is serving another
C9_Witness ==
    /\ prog = "server"
    /\ served > 0
    /\ InFlight > 0

\* C10, as stated: once start-up has succeeded, the process ends with the gateway
\* closed exactly once and the connection closed exactly once, and neither is
\* closed while a request is in flight
C10_ClosedExactlyOnce ==
    /\ (pc = "exited" /\ contract = "bound") => (closes.gw = 1 /\ closes.conn = 1)
    /\ closes.gw <= 1
    /\ closes.conn <= 1
    /\ (gw = "closed" \/ conn = "closed") => InFlight = 0


Entries(dir) == {dir.listing[i] : i \in DOMAIN dir.listing}

\* the same directory listed in another order
Relisted(dir) ==
    {[readable |-> dir.readable, listing |-> l] :
        l \in {m \in Listings(Entries(dir)) : Len(m) = Len(dir.listing)}}

\* C12, as stated: an identity or a signer exists only if its directory could be
\* read and holds exactly one file, and what is loaded is the same in whatever
\* order the directory is listed
C12_LoadsOnlyFromSingleFile ==
    /\ identity # "nil" => (fs.cert.readable /\ Len(fs.cert.listing) = 1)
    /\ sign # "nil" => (fs.key.readable /\ Len(fs.key.listing) = 1)
    /\ \A d \in Relisted(fs.cert) :
          identity # "nil" => CertificateFromPEM(readFirstFile(d)).data = identity
    /\ \A d \in Relisted(fs.key) :
          sign # "nil" => PrivateKeyFromPEM(readFirstFile(d)).data = sign


\* the values the ledger holds, without their versions
Values(state) == [k \in Ids |-> state[k].val]

\* the step in which the ledger validates InitLedger submit t
CommitsInitLedger(t) ==
    /\ IsInitLedger(t)
    /\ txs[t].vcode = "NONE"
    /\ txs'[t].vcode = "VALID"

\* C13: right after an InitLedger commits, S1 and S2 read back as Alice/CSE/9.1 and
\* Bob/ECE/8.5 whatever they held, every other key holds what it held, and an
\* InitLedger is never invalidated; committing InitLedger again on the resulting
\* state leaves every value as it is
C13_InitLedgerResetsSeeds ==
    /\ [][\A t \in DOMAIN txs :
            /\ (IsInitLedger(t) /\ txs[t].vcode = "NONE") => txs'[t].vcode \in {"NONE", "VALID"}
            /\ CommitsInitLedger(t) =>
                  /\ ReadStudent(ledger', "S1").payload
                        = <<NewStudent("S1", "Alice", "CSE", "9.1")>>
                  /\ ReadStudent(ledger', "S2").payload
                        = <<NewStudent("S2", "Bob", "ECE", "8.5")>>
                  /\ \A k \in Ids \ {"S1", "S2"} : ledger'[k].val = ledger[k].val
                  /\ Values(WriteSet(ledger', InitLedger(ledger').writes, Height' + 1))
                        = Values(ledger')]_vars
    /\ [](\A t \in DOMAIN txs, u \in DOMAIN txs :
            (IsInitLedger(t) /\ IsInitLedger(u) /\ txs[t].vcode = "VALID"
                /\ txs[u].vcode = "VALID" /\ txs[u].block = txs[t].block + 1)
            => /\ ReadStudent(ledger, "S1").payload = <<NewStudent("S1", "Alice", "CSE", "9.1")>>
               /\ ReadStudent(ledger, "S2").payload = <<NewStudent("S2", "Bob", "ECE", "8.5")>>)

\* S1 held Carol's record when InitLedger committed, and holds Alice's now
C13_Witness ==
    \E t \in DOMAIN txs, u \in DOMAIN txs :
        /\ IsCreate(t) /\ txs[t].args[1] = "S1" /\ txs[t].args[2] = "Carol"
        /\ txs[t].vcode = "VALID"
        /\ IsInitLedger(u) /\ txs[u].vcode = "VALID"
        /\ txs[t].block < txs[u].block
        /\ ReadStudent(ledger, "S1").payload = <<NewStudent("S1", "Alice", "CSE", "9.1")>>


AnswerOf(r) == requests[r].answer[1]

IsAnswered(r) == requests[r].answer # Nil

\* the submits made for all requests together
RECURSIVE SubmitsOf(_)
SubmitsOf(n) ==
    IF n = 0 THEN <<>> ELSE SubmitsOf(n - 1) \o requests[n].submits

\* C14: init, create, update and delete answer 200 or 201 only for a request that
\* made exactly one submit and whose transaction is valid on the ledger; a request
\* whose body does not bind is answered 400 without a submit; a submit error is
\* answered with an error status; and an answered request submits nothing more
C14_SuccessOnlyIfCommitted ==
    /\ [](/\ SubmitsOf(Len(requests)) = [i \in 1..Len(txs) |-> i]
          /\ \A r \in DOMAIN requests :
                /\ ~requests[r].bound =>
                      /\ IsAnswered(r) /\ AnswerOf(r).status = 400
                      /\ requests[r].submits = <<>>
                /\ requests[r].bound => Len(requests[r].submits) = 1
                /\ (IsAnswered(r) /\ AnswerOf(r).status \in {200, 201}) =>
                      /\ Len(requests[r].submits) = 1
                      /\ txs[requests[r].submits[1]].vcode = "VALID"
                /\ (IsAnswered(r) /\ requests[r].bound
                        /\ txs[requests[r].submits[1]].err # NoError) =>
                      AnswerOf(r).status >= 400)
    /\ [][\A r \in DOMAIN requests :
            IsAnswered(r) => requests'[r] = requests[r]]_vars

\* one request was answered 200 with its transaction valid, another was answered
\* 400, and only one submit was ever made
C14_Witness ==
    \E r \in DOMAIN requests, q \in DOMAIN requests :
        /\ IsAnswered(r) /\ AnswerOf(r).status = 200
        /\ txs[requests[r].submits[1]].vcode = "VALID"
        /\ IsAnswered(q) /\ AnswerOf(q).status = 400
        /\ Len(txs) = 1

=============================================================================
